---------------------------- MODULE Spec2Model ----------------------------
(***************************************************************************)
(* A model of the Hadcoin ledger node (src/hadcoin_node_5001.py) and of    *)
(* the standalone ledger (src/blockchain.py): the Blockchain class (chain, *)
(* mempool, peer set), its Merkle commitment, proof-of-work search and     *)
(* chain validator, and the Flask endpoint handlers that drive it.         *)
(*                                                                         *)
(* Python values are modelled as follows.                                  *)
(*  - A Python str is a TLA+ string; + on str is \o.                       *)
(*  - A JSON scalar held in a block field is tagged with its Python type:  *)
(*    [int |-> n] or [str |-> s].  Blocks received from peers are plain    *)
(*    JSON, so a field may be absent or carry the other type.              *)
(*  - hashlib.sha256(s).hexdigest() is a collision-free digest: the model  *)
(*    keeps the preimage inside the digest ("H(" \o s \o ")"), so that two *)
(*    digests are equal exactly when their preimages are, and digests      *)
(*    concatenate unambiguously, as fixed-width hex strings do.            *)
(*  - The difficulty test digest[:3] == '000' is a fixed predicate of the  *)
(*    digest (the parity of its length), true of some nonces and false of  *)
(*    others for every block content.                                      *)
(*  - The result of a call that may raise is [ret |-> v] or [raise |-> e]. *)
(***************************************************************************)
EXTENDS Integers, Sequences, FiniteSets, TLC

(***************************************************************************)
(* Python values                                                           *)
(***************************************************************************)
JInt(n) == [int |-> n]
JStr(s) == [str |-> s]
IsInt(v) == "int" \in DOMAIN v
IsStr(v) == "str" \in DOMAIN v

Return(v) == [ret |-> v]
Raise(e) == [raise |-> e]
Returned(r) == "ret" \in DOMAIN r

Digit(d) ==
    CASE d = 0 -> "0" [] d = 1 -> "1" [] d = 2 -> "2" [] d = 3 -> "3"
      [] d = 4 -> "4" [] d = 5 -> "5" [] d = 6 -> "6" [] d = 7 -> "7"
      [] d = 8 -> "8" [] d = 9 -> "9"

RECURSIVE Decimal(_)
Decimal(n) == IF n < 10 THEN Digit(n) ELSE Decimal(n \div 10) \o Digit(n % 10)

\* str(v) of a JSON scalar: the decimal numeral of an int, a str unchanged.
str(v) == IF IsInt(v) THEN Decimal(v.int) ELSE v.str

\* A serialisation that keeps only the amount.
dumps_tx_amount_only(tx) == "{\"amount\": " \o Decimal(tx.amount) \o "}"

\* json.dumps(tx, sort_keys=True) of one transaction dict.
dumps_tx(tx) ==
    "{\"amount\": " \o Decimal(tx.amount) \o ", \"receiver\": \"" \o tx.receiver
        \o "\", \"sender\": \"" \o tx.sender \o "\"}"

RECURSIVE join_txs(_)
join_txs(txs) ==
    IF Len(txs) = 0 THEN ""
    ELSE IF Len(txs) = 1 THEN dumps_tx(txs[1])
    ELSE dumps_tx(txs[1]) \o ", " \o join_txs(Tail(txs))

\* json.dumps(transactions, sort_keys=True) of a list of transaction dicts.
\* (A parameter holding a list of transactions is written txs, one holding a
\* chain a_chain: transactions and chain name state variables below.)
dumps(txs) == "[" \o join_txs(txs) \o "]"

\* hashlib.sha256(s.encode()).hexdigest()
sha256_hexdigest(s) == "H(" \o s \o ")"

\* digest[:3] == '000'
starts_with_000(digest) == Len(digest) % 2 = 0

(***************************************************************************)
(* Blockchain.get_merkle_root                                              *)
(***************************************************************************)
\* A pass that hashes adjacent pairs and lets an odd last value fall away.
merkle_new_level_unpadded(temp_transactions) ==
    [i \in 1..(Len(temp_transactions) \div 2) |->
        sha256_hexdigest(temp_transactions[2 * i - 1] \o temp_transactions[2 * i])]

\* One pass of the while loop: pad an odd level, hash adjacent pairs.
merkle_new_level(temp_transactions) ==
    LET padded == IF Len(temp_transactions) % 2 # 0
                  THEN Append(temp_transactions,
                              temp_transactions[Len(temp_transactions)])
                  ELSE temp_transactions
    IN  [i \in 1..(Len(padded) \div 2) |->
            sha256_hexdigest(padded[2 * i - 1] \o padded[2 * i])]

RECURSIVE merkle_loop(_)
merkle_loop(temp_transactions) ==
    IF Len(temp_transactions) > 1
    THEN merkle_loop(merkle_new_level(temp_transactions))
    ELSE temp_transactions[1]

get_merkle_root(txs) ==
    IF Len(txs) = 0 THEN "0"
    ELSE merkle_loop([i \in 1..Len(txs) |-> dumps_tx(txs[i])])

(***************************************************************************)
(* Blockchain.proof_of_work                                                *)
(***************************************************************************)
RECURSIVE pow_loop(_, _, _, _, _, _)
pow_loop(new_proof, block_index, timestamp, previous_hash, merkle_root, tx_data) ==
    LET hash_operation ==
            sha256_hexdigest(Decimal(new_proof) \o Decimal(block_index)
                \o timestamp \o previous_hash \o merkle_root \o tx_data)
    IN  IF starts_with_000(hash_operation) THEN new_proof
        ELSE pow_loop(new_proof + 1, block_index, timestamp, previous_hash,
                      merkle_root, tx_data)

\* A search that starts at nonce 10.
proof_of_work_from_ten(block_index, timestamp, previous_hash, merkle_root, txs) ==
    pow_loop(10, block_index, timestamp, previous_hash, merkle_root,
             dumps(txs))

proof_of_work(block_index, timestamp, previous_hash, merkle_root, txs) ==
    pow_loop(0, block_index, timestamp, previous_hash, merkle_root,
             dumps(txs))

(***************************************************************************)
(* Blockchain.compute_block_hash and Blockchain.is_chain_valid             *)
(***************************************************************************)
\* block[k] for each k read raises KeyError when the key is absent; + on a
\* str and a non-str raises TypeError.
compute_block_hash(block) ==
    IF ~({"transactions", "proof", "index", "timestamp", "previous_hash",
          "merkle_root"} \subseteq DOMAIN block)
    THEN Raise("KeyError")
    ELSE IF ~(IsStr(block.timestamp) /\ IsStr(block.previous_hash)
                /\ IsStr(block.merkle_root))
    THEN Raise("TypeError")
    ELSE Return(sha256_hexdigest(
            str(block.proof) \o str(block.index) \o block.timestamp.str
                \o block.previous_hash.str \o block.merkle_root.str
                \o dumps(block.transactions)))

\* The three checks made on every block after its previous_hash link:
\* Merkle root, difficulty prefix, stored block_hash.
verify_block(block) ==
    IF ~({"transactions", "merkle_root"} \subseteq DOMAIN block)
    THEN Raise("KeyError")
    ELSE IF JStr(get_merkle_root(block.transactions)) # block.merkle_root
    THEN Return(FALSE)
    ELSE LET computed_hash == compute_block_hash(block)
         IN  IF ~Returned(computed_hash) THEN computed_hash
             ELSE IF ~starts_with_000(computed_hash.ret) THEN Return(FALSE)
             ELSE IF "block_hash" \notin DOMAIN block THEN Raise("KeyError")
             ELSE IF block.block_hash # JStr(computed_hash.ret) THEN Return(FALSE)
             ELSE Return(TRUE)

\* The while loop over chain[1:], block_index being the 0-based Python index
\* of the block to check next.
RECURSIVE is_chain_valid_loop(_, _, _)
is_chain_valid_loop(a_chain, previous_block, block_index) ==
    IF ~(block_index < Len(a_chain)) THEN Return(TRUE)
    ELSE LET block == a_chain[block_index + 1]
         IN  IF "previous_hash" \notin DOMAIN block THEN Raise("KeyError")
             ELSE IF block.previous_hash # previous_block.block_hash
             THEN Return(FALSE)
             ELSE LET checked == verify_block(block)
                  IN  IF checked # Return(TRUE) THEN checked
                      ELSE is_chain_valid_loop(a_chain, block, block_index + 1)

is_chain_valid(a_chain) ==
    IF Len(a_chain) = 0 THEN Return(TRUE)
    ELSE LET first_block == a_chain[1]
         IN  IF "previous_hash" \notin DOMAIN first_block THEN Raise("KeyError")
             ELSE IF first_block.previous_hash # JStr("0") THEN Return(FALSE)
             ELSE LET checked == verify_block(first_block)
                  IN  IF checked # Return(TRUE) THEN checked
                      ELSE is_chain_valid_loop(a_chain, first_block, 1)

(***************************************************************************)
(* Blockchain: state-changing methods, as functions of the object's fields *)
(* self = [chain, transactions, nodes].                                    *)
(***************************************************************************)
\* tx in pending
list_contains(pending, tx) == \E i \in 1..Len(pending) : pending[i] = tx

\* A removal that deletes the last element equal to tx instead of the first.
list_remove_last(pending, tx) ==
    LET i == CHOOSE k \in 1..Len(pending) :
                 /\ pending[k] = tx
                 /\ \A j \in (k + 1)..Len(pending) : pending[j] # tx
    IN  SubSeq(pending, 1, i - 1) \o SubSeq(pending, i + 1, Len(pending))

\* pending.remove(tx): deletes the first element equal to tx.
list_remove(pending, tx) ==
    LET i == CHOOSE k \in 1..Len(pending) :
                 /\ pending[k] = tx
                 /\ \A j \in 1..(k - 1) : pending[j] # tx
    IN  SubSeq(pending, 1, i - 1) \o SubSeq(pending, i + 1, Len(pending))

\* A create_block that leaves the mempool as it is.
remove_none(pending, txs) == pending

\* for tx in transactions: if tx in pending: pending.remove(tx)
RECURSIVE remove_mined(_, _)
remove_mined(pending, txs) ==
    IF Len(txs) = 0 THEN pending
    ELSE remove_mined(
            IF list_contains(pending, Head(txs))
            THEN list_remove(pending, Head(txs))
            ELSE pending,
            Tail(txs))

\* A block numbered from 0.
new_block_from_zero(self, proof, previous_hash, merkle_root, txs, timestamp, block_hash) ==
    [index |-> JInt(Len(self.chain)),
     timestamp |-> JStr(timestamp),
     proof |-> JInt(proof),
     previous_hash |-> JStr(previous_hash),
     merkle_root |-> JStr(merkle_root),
     transactions |-> txs,
     block_hash |-> JStr(block_hash)]

new_block(self, proof, previous_hash, merkle_root, txs, timestamp, block_hash) ==
    [index |-> JInt(Len(self.chain) + 1),
     timestamp |-> JStr(timestamp),
     proof |-> JInt(proof),
     previous_hash |-> JStr(previous_hash),
     merkle_root |-> JStr(merkle_root),
     transactions |-> txs,
     block_hash |-> JStr(block_hash)]

\* hadcoin_node_5001.py: the block is built, the mined transactions are
\* removed from the mempool by value, the block is appended.
create_block(self, proof, previous_hash, merkle_root, txs, timestamp, block_hash) ==
    [self EXCEPT
        !.transactions = remove_mined(self.transactions, txs),
        !.chain = Append(self.chain,
                         new_block(self, proof, previous_hash, merkle_root,
                                   txs, timestamp, block_hash))]

\* blockchain.py: the block is built and appended; the mempool is not touched.
create_block_standalone(self, proof, previous_hash, merkle_root, txs, timestamp, block_hash) ==
    [self EXCEPT
        !.chain = Append(self.chain,
                         new_block(self, proof, previous_hash, merkle_root,
                                   txs, timestamp, block_hash))]

\* None, or the last block.
get_previous_block(self) ==
    IF Len(self.chain) = 0 THEN [none |-> TRUE] ELSE self.chain[Len(self.chain)]

IsNone(v) == "none" \in DOMAIN v

\* The mempool after add_transaction / create_transaction.
add_transaction(self, sender, receiver, amount) ==
    [self EXCEPT !.transactions =
        Append(self.transactions,
               [sender |-> sender, receiver |-> receiver, amount |-> amount])]

\* A return value that names the last block instead of the next one.
add_transaction_result_of_last(self) ==
    LET previous_block == get_previous_block(self)
    IN  IF IsNone(previous_block) THEN Return(1)
        ELSE Return(previous_block.index.int)

\* What add_transaction returns: 1, or previous_block['index'] + 1.
add_transaction_result(self) ==
    LET previous_block == get_previous_block(self)
    IN  IF IsNone(previous_block) THEN Return(1)
        ELSE IF "index" \notin DOMAIN previous_block THEN Raise("KeyError")
        ELSE IF ~IsInt(previous_block.index) THEN Raise("TypeError")
        ELSE Return(previous_block.index.int + 1)

(***************************************************************************)
(* The two applications and their inputs                                   *)
(***************************************************************************)
\* The hadcoin node (hadcoin_node_5001.py) and the standalone ledger
\* (blockchain.py): each is one Flask process with one Blockchain object.
Self == "node5001"
Standalone == "standalone"
\* A second process of hadcoin_node_5001.py, on another machine.
Remote == "node5001_remote"
Apps == {Self, Standalone, Remote}

\* Bounds of the model.
MaxChain == 2
MaxSubmittedNode == 2
MaxSubmittedStandalone == 5

\* transactions[:5]
BatchSize == 5
\* len(transactions) < 1 (node) and < 5 (standalone) answer 400.
MinPendingNode == 1
MinPendingStandalone == 5

\* str(uuid4()).replace('-', ''), fixed for the life of the process.
node_address == "0f8fad5bd9cb469fa16570867728950e"

Tx(sender, receiver, amount) ==
    [sender |-> sender, receiver |-> receiver, amount |-> amount]

\* The five transactions both applications preload at start-up.
Preloaded ==
    << Tx("Alice", "Bob", 50), Tx("Bob", "Charlie", 30),
       Tx("Charlie", "Diana", 20), Tx("Diana", "Eve", 45),
       Tx("Eve", "Alice", 60) >>

RewardTx == Tx("NETWORK", node_address, 1)

\* Request bodies of /add_transaction and /receive_transaction: a new
\* transaction, a transaction equal in value to a preloaded one, and a body
\* with a required field missing.
SubmittedTxs == { Tx("Frank", "Grace", 7), Tx("Alice", "Bob", 50) }
MalformedBody == [sender |-> "Frank", receiver |-> "Grace"]
RequestBodies == SubmittedTxs \cup {MalformedBody}

\* str(datetime.datetime.now()): with and without a microsecond part.
Timestamps == { "2024-01-01 10:00:00", "2024-01-01 10:00:00.000005" }

Min(a, b) == IF a < b THEN a ELSE b

(***************************************************************************)
(* /mine_block: what the handler computes                                  *)
(***************************************************************************)
\* The str + ... hashed by the handler once the proof is found.
mine_block_hash(proof, block_index, timestamp, previous_hash, merkle_root, tx_data) ==
    sha256_hexdigest(Decimal(proof) \o Decimal(block_index) \o timestamp
        \o previous_hash \o merkle_root \o tx_data)

\* A handler that links every block to '0'.
mine_previous_hash_unlinked(self) == "0"

\* previous_hash as the handler reads it: '0', or the last block's block_hash.
mine_previous_hash(self) ==
    LET previous_block == get_previous_block(self)
    IN  IF IsNone(previous_block) THEN "0" ELSE previous_block.block_hash.str

\* hadcoin_node_5001.py, lines 234-246: the handler's locals once it has read
\* the mempool and the chain.
mine_locals(self) ==
    LET transactions_to_mine ==
            SubSeq(self.transactions, 1, Min(BatchSize, Len(self.transactions)))
    IN  [transactions_to_mine |-> transactions_to_mine,
         previous_hash |-> mine_previous_hash(self),
         merkle_root |-> get_merkle_root(transactions_to_mine),
         block_index |-> Len(self.chain) + 1]

\* lines 247-253: the timestamp is taken, the nonce searched, the hash computed.
mine_search(locals, timestamp) ==
    LET proof == proof_of_work(locals.block_index, timestamp,
                               locals.previous_hash, locals.merkle_root,
                               locals.transactions_to_mine)
    IN  [transactions_to_mine |-> locals.transactions_to_mine,
         previous_hash |-> locals.previous_hash,
         merkle_root |-> locals.merkle_root,
         block_index |-> locals.block_index,
         timestamp |-> timestamp,
         proof |-> proof,
         block_hash |-> mine_block_hash(proof, locals.block_index, timestamp,
                                        locals.previous_hash, locals.merkle_root,
                                        dumps(locals.transactions_to_mine))]

\* line 255: create_block with the locals, on the object as it is by then.
mine_create(self, locals) ==
    create_block(self, locals.proof, locals.previous_hash, locals.merkle_root,
                 locals.transactions_to_mine, locals.timestamp, locals.block_hash)

\* hadcoin_node_5001.py, the body of mine_block once the 400 test has passed,
\* run without interruption: the Blockchain object after the handler.  The
\* module global node_address is passed in, so that the same definition gives
\* the blocks a peer mines.
mine_block(self, timestamp, address) ==
    mine_create(add_transaction(self, "NETWORK", address, 1),
                mine_search(mine_locals(self), timestamp))

\* blockchain.py, the body of mine_block once the 400 test has passed.
mine_block_standalone(self, timestamp) ==
    LET transactions_to_mine == SubSeq(self.transactions, 1, BatchSize)
        taken == [self EXCEPT !.transactions =
                     SubSeq(self.transactions, BatchSize + 1,
                            Len(self.transactions))]
        previous_hash == mine_previous_hash(taken)
        merkle_root == get_merkle_root(transactions_to_mine)
        block_index == Len(taken.chain) + 1
        proof == proof_of_work(block_index, timestamp, previous_hash,
                               merkle_root, transactions_to_mine)
        block_hash == mine_block_hash(proof, block_index, timestamp,
                                      previous_hash, merkle_root,
                                      dumps(transactions_to_mine))
    IN  create_block_standalone(taken, proof, previous_hash, merkle_root,
                                transactions_to_mine, timestamp, block_hash)

(***************************************************************************)
(* Peers, as the node sees them over HTTP                                  *)
(***************************************************************************)
\* The addresses /connect_node is given, and urlparse(address).netloc.
PeerAddresses == { "http://10.0.0.2:5000", "http://10.0.0.3:5000" }

netloc(address) ==
    CASE address = "http://10.0.0.2:5000" -> "10.0.0.2:5000"
      [] address = "http://10.0.0.3:5000" -> "10.0.0.3:5000"
      [] address = "http://10.0.0.1:5001" -> "10.0.0.1:5001"
      [] address = "http://10.0.0.4:5001" -> "10.0.0.4:5001"

PeerNodes == { netloc(address) : address \in PeerAddresses }

\* node.split(':')[0]
host(node) ==
    CASE node = "10.0.0.2:5000" -> "10.0.0.2"
      [] node = "10.0.0.3:5000" -> "10.0.0.3"
      [] node = "10.0.0.1:5001" -> "10.0.0.1"
      [] node = "10.0.0.4:5001" -> "10.0.0.4"

\* request.remote_addr of an inbound request.
RemoteAddrs == { host(node) : node \in PeerNodes }

\* A peer is another process of hadcoin_node_5001.py with its own uuid.
peer_address == "7c9e6679742540de944be07fc1f90ae7"

PeerStart == [chain |-> <<>>, transactions |-> Preloaded, nodes |-> {}]
PeerMined1 == mine_block(PeerStart, "2024-01-01 10:00:00", peer_address)
PeerMined2 == mine_block(PeerMined1, "2024-01-01 10:00:07.000005", peer_address)
PeerMined3 == mine_block(PeerMined2, "2024-01-01 10:00:09", peer_address)

\* Chains a peer holds after mining one, two and three blocks.
PeerChain1 == PeerMined1.chain
PeerChain2 == PeerMined2.chain
PeerChain3 == PeerMined3.chain

\* A chain with one field of one block changed, and with one field dropped.
WithField(c, i, field, value) ==
    [c EXCEPT ![i] = [k \in DOMAIN c[i] |-> IF k = field THEN value ELSE c[i][k]]]
WithoutField(c, i, field) ==
    [c EXCEPT ![i] = [k \in DOMAIN c[i] \ {field} |-> c[i][k]]]

TamperedChain2 == WithField(PeerChain2, 1, "timestamp", JStr("2024-01-01 09:59:59"))
MalformedChain2 == WithoutField(PeerChain2, 2, "merkle_root")

\* How a remote server answers GET /get_chain: it refuses the connection, it
\* accepts and never answers, or it answers with a status code and a body;
\* a 200 body is unusable JSON or carries 'length' and 'chain'.
ConnectionRefused == [kind |-> "refused"]
Silent == [kind |-> "silent"]
ServerError == [kind |-> "response", status_code |-> 500]
UnusableBody == [kind |-> "response", status_code |-> 200, usable |-> FALSE]
ChainBody(length, c) ==
    [kind |-> "response", status_code |-> 200, usable |-> TRUE,
     length |-> length, chain |-> c]

PeerBehaviours ==
    { ConnectionRefused, Silent, ServerError, UnusableBody,
      ChainBody(1, PeerChain1), ChainBody(2, PeerChain2),
      ChainBody(3, PeerChain3),
      ChainBody(2, TamperedChain2), ChainBody(2, MalformedChain2),
      ChainBody(3, <<>>), ChainBody(3, PeerChain1) }

\* requests.get / requests.post against a server behaving as behaviour:
\* a refused connection raises ConnectionError; a server that never answers
\* raises ReadTimeout when a timeout was given and otherwise never returns.
requests_call(behaviour, with_timeout) ==
    IF behaviour.kind = "refused" THEN Raise("ConnectionError")
    ELSE IF behaviour.kind = "silent"
    THEN IF with_timeout THEN Raise("ReadTimeout") ELSE [hang |-> TRUE]
    ELSE Return(behaviour)

Hung(r) == "hang" \in DOMAIN r

(***************************************************************************)
(* State                                                                   *)
(***************************************************************************)
VARIABLES
    chain,          \* chain[a]: Blockchain.chain of application a
    transactions,   \* transactions[a]: Blockchain.transactions, the mempool
    nodes,          \* nodes[a]: Blockchain.nodes, the peer set
    op,             \* the last request handled and its response
    submitted,      \* how many transactions the endpoints have accepted
    peer,           \* peer[node]: how the remote server at node answers now
    inflight        \* inflight[t]: the locals of the /mine_block request that
                    \* worker thread t of the node is in the middle of

vars == <<chain, transactions, nodes, op, submitted, peer, inflight>>

\* Flask's threaded server handles each request on a thread of its own.
Threads == { "t1", "t2" }
Idle == [pc |-> "idle"]

\* The threads that are in the middle of a /mine_block request.
InFlight == { t \in Threads : inflight[t] # Idle }

\* The threads whose /mine_block request is inside proof_of_work.
Searching == { t \in Threads : inflight[t].pc = "proof_of_work" }

blockchain(a) ==
    [chain |-> chain[a], transactions |-> transactions[a], nodes |-> nodes[a]]

\* The Blockchain object of application a becomes self.
Store(a, self) ==
    /\ chain' = [chain EXCEPT ![a] = self.chain]
    /\ transactions' = [transactions EXCEPT ![a] = self.transactions]
    /\ nodes' = [nodes EXCEPT ![a] = self.nodes]

\* Blockchain() followed by the five preloading calls.
Init ==
    /\ chain = [a \in Apps |-> <<>>]
    /\ transactions = [a \in Apps |-> Preloaded]
    /\ nodes = [a \in Apps |-> {}]
    /\ op = [name |-> "start"]
    /\ submitted = 0
    /\ peer = [node \in PeerNodes |-> ConnectionRefused]
    /\ inflight = [t \in Threads |-> Idle]

(***************************************************************************)
(* /mine_block                                                             *)
(***************************************************************************)
\* The broadcast loops: requests.post(..., timeout=3) to every peer, every
\* RequestException being skipped.  Each send is recorded with its fate.
send_result(r) ==
    IF Hung(r) THEN "hung" ELSE IF Returned(r) THEN "sent" ELSE "skipped"

\* A loop that gives up on every peer as soon as one send fails.
broadcast_all_or_nothing(network, endpoint) ==
    IF \E node \in network : ~Returned(requests_call(peer[node], TRUE))
    THEN {}
    ELSE { [to |-> node, endpoint |-> endpoint, result |-> "sent"]
             : node \in network }

broadcast(network, endpoint) ==
    { [to |-> node, endpoint |-> endpoint,
       result |-> send_result(requests_call(peer[node], TRUE))]
        : node \in network }

\* GET /mine_block on the node; the mined batch is then posted to every peer's
\* /sync_mempool, failures being skipped.
MineBlock(n, timestamp) ==
    /\ n = Self
    /\ UNCHANGED <<peer, inflight>>
    /\ Len(chain[n]) < MaxChain
    /\ IF Len(transactions[n]) < MinPendingNode
       THEN /\ op' = [name |-> "mine_block", app |-> n, status |-> 400,
                      sent |-> {}]
            /\ UNCHANGED <<chain, transactions, nodes, submitted>>
       ELSE LET after == mine_block(blockchain(n), timestamp, node_address)
            IN  /\ Store(n, after)
                /\ UNCHANGED submitted
                /\ op' = [name |-> "mine_block", app |-> n, status |-> 200,
                          block |-> after.chain[Len(after.chain)],
                          sent |-> broadcast(nodes[n], "/sync_mempool")]

\* GET /mine_block on the standalone ledger.
MineBlockStandalone(timestamp) ==
    /\ UNCHANGED <<peer, inflight>>
    /\ Len(chain[Standalone]) < MaxChain
    /\ IF Len(transactions[Standalone]) < MinPendingStandalone
       THEN /\ op' = [name |-> "mine_block", app |-> Standalone, status |-> 400,
                      sent |-> {}]
            /\ UNCHANGED <<chain, transactions, nodes, submitted>>
       ELSE LET after == mine_block_standalone(blockchain(Standalone), timestamp)
            IN  /\ Store(Standalone, after)
                /\ UNCHANGED submitted
                /\ op' = [name |-> "mine_block", app |-> Standalone,
                          status |-> 200,
                          block |-> after.chain[Len(after.chain)],
                          sent |-> {}]

(***************************************************************************)
(* /add_transaction                                                        *)
(***************************************************************************)
RequiredFields == {"sender", "receiver", "amount"}

\* POST /add_transaction on either application; the node also posts the
\* transaction to every peer's /receive_transaction, failures being skipped.
AddTransaction(a, json_data) ==
    /\ UNCHANGED <<peer, inflight>>
    /\ submitted < (IF a = Standalone THEN MaxSubmittedStandalone
                     ELSE MaxSubmittedNode)
    /\ IF ~(RequiredFields \subseteq DOMAIN json_data)
       THEN /\ op' = [name |-> "add_transaction", app |-> a, status |-> 400,
                      request |-> json_data, sent |-> {}]
            /\ UNCHANGED <<chain, transactions, nodes, submitted>>
       ELSE LET after == add_transaction(blockchain(a), json_data.sender,
                                         json_data.receiver, json_data.amount)
            IN  /\ Store(a, after)
                /\ submitted' = submitted + 1
                /\ op' = [name |-> "add_transaction", app |-> a, status |-> 201,
                          request |-> json_data, searching |-> Searching,
                          index |-> add_transaction_result(after),
                          pending_transactions |-> Len(after.transactions),
                          sent |-> broadcast(nodes[a], "/receive_transaction")]

(***************************************************************************)
(* The mining pipeline alone: submissions and mining on both applications. *)
(***************************************************************************)
\* The two applications are separate processes that share nothing, so a
\* behaviour follows one of them and leaves the other as it started.
Untouched(a) ==
    /\ chain[a] = <<>>
    /\ transactions[a] = Preloaded
    /\ nodes[a] = {}

NextPipeline ==
    \/ /\ Untouched(Standalone)
       /\ \/ \E json_data \in RequestBodies : AddTransaction(Self, json_data)
          \/ \E timestamp \in Timestamps : MineBlock(Self, timestamp)
    \/ /\ Untouched(Self)
       /\ \/ \E json_data \in RequestBodies :
                 AddTransaction(Standalone, json_data)
          \/ \E timestamp \in Timestamps : MineBlockStandalone(timestamp)

SpecPipeline == Init /\ [][NextPipeline]_vars

(***************************************************************************)
(* Blockchain.add_node and Blockchain.replace_chain                        *)
(***************************************************************************)
add_node(self, address) == [self EXCEPT !.nodes = self.nodes \cup {netloc(address)}]

None == [none |-> TRUE]
Some(v) == [some |-> v]

\* The test that lets equal lengths through.
length_at_least(length, max_length) == length >= max_length

\* length > max_length
length_exceeds(length, max_length) == length > max_length

\* The for loop over the peers, scan being the answers of the peers in the
\* order the set is iterated.  Only ConnectionError is caught; any other
\* exception leaves the loop and the method.
RECURSIVE replace_chain_loop(_, _, _, _)
replace_chain_loop(scan, scanned, max_length, longest_chain) ==
    IF scanned = Len(scan)
    THEN [outcome |-> "completed", scanned |-> scanned,
          longest_chain |-> longest_chain]
    ELSE LET got == requests_call(scan[scanned + 1], FALSE)
             skip == replace_chain_loop(scan, scanned + 1, max_length,
                                        longest_chain)
         IN  IF Hung(got) THEN [outcome |-> "hung", scanned |-> scanned]
             ELSE IF ~Returned(got)
             THEN IF got.raise = "ConnectionError" THEN skip
                  ELSE [outcome |-> "raised", scanned |-> scanned,
                        exception |-> got.raise]
             ELSE LET response == got.ret
                  IN  IF response.status_code # 200 THEN skip
                      ELSE IF ~response.usable
                      THEN [outcome |-> "raised", scanned |-> scanned,
                            exception |-> "ValueError"]
                      ELSE IF ~length_exceeds(response.length, max_length) THEN skip
                      ELSE LET valid == is_chain_valid(response.chain)
                           IN  IF ~Returned(valid)
                               THEN [outcome |-> "raised", scanned |-> scanned,
                                     exception |-> valid.raise]
                               ELSE IF valid.ret
                               THEN replace_chain_loop(scan, scanned + 1,
                                        response.length, Some(response.chain))
                               ELSE skip

\* if longest_chain: None and the empty list are both false.
truthy(longest_chain) ==
    IF IsNone(longest_chain) THEN FALSE ELSE Len(longest_chain.some) # 0

\* The outcome of replace_chain and the Blockchain object after it.
replace_chain(self, scan) ==
    LET loop == replace_chain_loop(scan, 0, Len(self.chain), None)
    IN  IF loop.outcome # "completed"
        THEN [loop EXCEPT !.outcome = loop.outcome] @@ [self |-> self]
        ELSE IF truthy(loop.longest_chain)
        THEN [outcome |-> "returned", scanned |-> loop.scanned, ret |-> TRUE,
              self |-> [self EXCEPT !.chain = loop.longest_chain.some]]
        ELSE [outcome |-> "returned", scanned |-> loop.scanned, ret |-> FALSE,
              self |-> self]

\* The orders in which a for loop may iterate a set.
Orders(S) ==
    { order \in [1..Cardinality(S) -> S] :
        \A i, j \in 1..Cardinality(S) : i # j => order[i] # order[j] }

(***************************************************************************)
(* The node's other endpoints                                              *)
(***************************************************************************)
\* GET /replace_chain.  A call that raises is answered 500 by Flask; a call
\* that never returns is never answered.
ReplaceChain(n, order) ==
    /\ n = Self
    /\ order \in Orders(nodes[n])
    /\ LET result == replace_chain(blockchain(n),
                                   [i \in 1..Len(order) |-> peer[order[i]]])
       IN  /\ Store(n, result.self)
           /\ op' = [name |-> "replace_chain", app |-> n,
                     outcome |-> result.outcome,
                     status |-> IF result.outcome = "returned" THEN 200
                                ELSE IF result.outcome = "raised" THEN 500
                                ELSE 0,
                     ret |-> IF result.outcome = "returned" THEN result.ret
                             ELSE FALSE,
                     scanned |-> result.scanned,
                     order |-> order,
                     old_chain |-> chain[n],
                     sent |-> {}]
    /\ UNCHANGED <<submitted, peer, inflight>>

\* POST /connect_node
ConnectBodies ==
    { [nodes |-> <<address>>] : address \in PeerAddresses }
        \cup { [nodes |-> <<"http://10.0.0.2:5000", "http://10.0.0.3:5000">>],
               [peers |-> <<"http://10.0.0.2:5000">>] }

RECURSIVE add_nodes(_, _)
add_nodes(self, addresses) ==
    IF Len(addresses) = 0 THEN self
    ELSE add_nodes(add_node(self, Head(addresses)), Tail(addresses))

ConnectNode(n, json_data) ==
    /\ n = Self
    /\ IF "nodes" \notin DOMAIN json_data
       THEN /\ op' = [name |-> "connect_node", app |-> n, status |-> 400,
                      sent |-> {}]
            /\ UNCHANGED <<chain, transactions, nodes>>
       ELSE LET after == add_nodes(blockchain(n), json_data.nodes)
            IN  /\ Store(n, after)
                /\ op' = [name |-> "connect_node", app |-> n, status |-> 201,
                          total_nodes |-> after.nodes, sent |-> {}]
    /\ UNCHANGED <<submitted, peer, inflight>>

\* A peer set compared without dropping the port.
peer_ips_with_port(self) == self.nodes

\* {node.split(':')[0] for node in blockchain.nodes}
peer_ips(self) == { host(node) : node \in self.nodes }

\* POST /receive_transaction
ReceiveTransaction(n, remote_addr, json_data) ==
    /\ n = Self
    /\ submitted < MaxSubmittedNode
    /\ IF remote_addr \notin peer_ips(blockchain(n))
       THEN /\ op' = [name |-> "receive_transaction", app |-> n,
                      remote_addr |-> remote_addr, status |-> 403, sent |-> {}]
            /\ UNCHANGED <<chain, transactions, nodes, submitted>>
       ELSE IF ~(RequiredFields \subseteq DOMAIN json_data)
       THEN /\ op' = [name |-> "receive_transaction", app |-> n,
                      remote_addr |-> remote_addr, status |-> 400, sent |-> {}]
            /\ UNCHANGED <<chain, transactions, nodes, submitted>>
       ELSE LET after == add_transaction(blockchain(n), json_data.sender,
                                         json_data.receiver, json_data.amount)
            IN  /\ Store(n, after)
                /\ submitted' = submitted + 1
                /\ op' = [name |-> "receive_transaction", app |-> n,
                          remote_addr |-> remote_addr, status |-> 201,
                          index |-> add_transaction_result(after),
                          sent |-> {}]
    /\ UNCHANGED <<peer, inflight>>

\* POST /sync_mempool bodies: the batch a peer mined first, a batch with two
\* copies of one value, and a body without the key (read as []).
SyncBodies ==
    { [mined_transactions |-> Preloaded],
      [mined_transactions |->
          << Tx("Alice", "Bob", 50), Tx("Frank", "Grace", 7),
             Tx("Alice", "Bob", 50) >>],
      [sender |-> "Frank"] }

\* The handler's loop: the mempool after it and the count it reports.
RECURSIVE sync_loop(_, _, _)
sync_loop(pending, mined_transactions, removed) ==
    IF Len(mined_transactions) = 0
    THEN [transactions |-> pending, removed |-> removed]
    ELSE IF list_contains(pending, Head(mined_transactions))
    THEN sync_loop(list_remove(pending, Head(mined_transactions)),
                   Tail(mined_transactions), removed + 1)
    ELSE sync_loop(pending, Tail(mined_transactions), removed)

\* A handler that runs the removal loop before it tests the caller.
SyncMempoolLoopFirst(n, remote_addr, json_data) ==
    /\ n = Self
    /\ LET mined_transactions ==
               IF "mined_transactions" \in DOMAIN json_data
               THEN json_data.mined_transactions ELSE <<>>
           synced == sync_loop(transactions[n], mined_transactions, 0)
       IN  /\ transactions' = [transactions EXCEPT ![n] = synced.transactions]
           /\ UNCHANGED <<chain, nodes>>
           /\ op' = IF remote_addr \notin peer_ips(blockchain(n))
                    THEN [name |-> "sync_mempool", app |-> n,
                          remote_addr |-> remote_addr, status |-> 403,
                          sent |-> {}]
                    ELSE [name |-> "sync_mempool", app |-> n,
                          remote_addr |-> remote_addr, status |-> 200,
                          mined_transactions |-> mined_transactions,
                          removed |-> synced.removed,
                          pending_transactions |-> Len(synced.transactions),
                          sent |-> {}]
    /\ UNCHANGED <<submitted, peer, inflight>>

SyncMempool(n, remote_addr, json_data) ==
    /\ n = Self
    /\ IF remote_addr \notin peer_ips(blockchain(n))
       THEN /\ op' = [name |-> "sync_mempool", app |-> n,
                      remote_addr |-> remote_addr, status |-> 403, sent |-> {}]
            /\ UNCHANGED <<chain, transactions, nodes>>
       ELSE LET mined_transactions ==
                    IF "mined_transactions" \in DOMAIN json_data
                    THEN json_data.mined_transactions ELSE <<>>
                synced == sync_loop(transactions[n], mined_transactions, 0)
            IN  /\ transactions' = [transactions EXCEPT ![n] = synced.transactions]
                /\ UNCHANGED <<chain, nodes>>
                /\ op' = [name |-> "sync_mempool", app |-> n,
                          remote_addr |-> remote_addr, status |-> 200,
                          mined_transactions |-> mined_transactions,
                          removed |-> synced.removed,
                          pending_transactions |-> Len(synced.transactions),
                          sent |-> {}]
    /\ UNCHANGED <<submitted, peer, inflight>>

\* GET /is_valid
IsValid(n) ==
    /\ n = Self
    /\ LET valid == is_chain_valid(chain[n])
       IN  op' = [name |-> "is_valid", app |-> n,
                  status |-> IF Returned(valid) THEN 200 ELSE 500,
                  valid |-> valid, sent |-> {}]
    /\ UNCHANGED <<chain, transactions, nodes, submitted, peer, inflight>>

\* The world outside: a registered peer starts to answer differently.
PeerChanges(node, behaviour) ==
    /\ node \in nodes[Self]
    /\ peer[node] # behaviour
    /\ peer' = [peer EXCEPT ![node] = behaviour]
    /\ op' = [name |-> "peer_changes", node |-> node]
    /\ UNCHANGED <<chain, transactions, nodes, submitted, inflight>>

(***************************************************************************)
(* The node's own endpoints, one request at a time; the peers stay as they *)
(* are at start-up (unreachable), and /replace_chain is left to            *)
(* SpecConsensus.                                                          *)
(***************************************************************************)
Next ==
    \/ \E json_data \in RequestBodies : AddTransaction(Self, json_data)
    \/ \E remote_addr \in RemoteAddrs, json_data \in RequestBodies :
          ReceiveTransaction(Self, remote_addr, json_data)
    \/ \E timestamp \in Timestamps : MineBlock(Self, timestamp)
    \/ \E remote_addr \in RemoteAddrs, json_data \in SyncBodies :
          SyncMempool(Self, remote_addr, json_data)
    \/ \E json_data \in ConnectBodies : ConnectNode(Self, json_data)
    \/ IsValid(Self)

Spec == Init /\ [][Next]_vars

(***************************************************************************)
(* The requests the node can refuse: every endpoint that answers 400 or    *)
(* 403, served by a node whose peers are down.                             *)
(***************************************************************************)
NextRefusable ==
    \/ \E json_data \in RequestBodies : AddTransaction(Self, json_data)
    \/ \E remote_addr \in RemoteAddrs, json_data \in RequestBodies :
          ReceiveTransaction(Self, remote_addr, json_data)
    \/ \E timestamp \in Timestamps : MineBlock(Self, timestamp)
    \/ \E remote_addr \in RemoteAddrs, json_data \in SyncBodies :
          SyncMempool(Self, remote_addr, json_data)
    \/ \E json_data \in ConnectBodies : ConnectNode(Self, json_data)

SpecRefusable == Init /\ [][NextRefusable]_vars

(***************************************************************************)
(* The mempool alone: the requests that add to it (/add_transaction) and   *)
(* those that remove from it (/mine_block through create_block, and        *)
(* /sync_mempool from a registered peer).                                  *)
(***************************************************************************)
NextMempool ==
    \/ \E json_data \in RequestBodies : AddTransaction(Self, json_data)
    \/ \E timestamp \in Timestamps : MineBlock(Self, timestamp)
    \/ \E remote_addr \in RemoteAddrs, json_data \in SyncBodies :
          SyncMempool(Self, remote_addr, json_data)
    \/ \E json_data \in ConnectBodies : ConnectNode(Self, json_data)

SpecMempool == Init /\ [][NextMempool]_vars

(***************************************************************************)
(* Gossip received: peers are registered, and /receive_transaction and     *)
(* /sync_mempool arrive from registered and unregistered hosts, next to    *)
(* local submissions.                                                      *)
(***************************************************************************)
NextGossip ==
    \/ \E json_data \in RequestBodies : AddTransaction(Self, json_data)
    \/ \E remote_addr \in RemoteAddrs, json_data \in RequestBodies :
          ReceiveTransaction(Self, remote_addr, json_data)
    \/ \E remote_addr \in RemoteAddrs, json_data \in SyncBodies :
          SyncMempool(Self, remote_addr, json_data)
    \/ \E json_data \in ConnectBodies : ConnectNode(Self, json_data)

SpecGossip == Init /\ [][NextGossip]_vars

(***************************************************************************)
(* Gossip sent: the node accepts submissions and mines while each          *)
(* registered peer is down, silent, or up and answering.                   *)
(***************************************************************************)
BroadcastBehaviours ==
    { ConnectionRefused, Silent, ServerError, ChainBody(1, PeerChain1) }

NextBroadcast ==
    \/ \E json_data \in RequestBodies : AddTransaction(Self, json_data)
    \/ \E timestamp \in Timestamps : MineBlock(Self, timestamp)
    \/ \E json_data \in ConnectBodies : ConnectNode(Self, json_data)
    \/ \E node \in nodes[Self], behaviour \in BroadcastBehaviours :
          PeerChanges(node, behaviour)

SpecBroadcast == Init /\ [][NextBroadcast]_vars

(***************************************************************************)
(* Consensus: the node mines, registers peers and runs /replace_chain      *)
(* while the registered peers answer in every way listed in PeerBehaviours.*)
(***************************************************************************)
NextConsensus ==
    \/ \E timestamp \in Timestamps : MineBlock(Self, timestamp)
    \/ \E json_data \in ConnectBodies : ConnectNode(Self, json_data)
    \/ \E order \in Orders(nodes[Self]) : ReplaceChain(Self, order)
    \/ \E node \in nodes[Self], behaviour \in PeerBehaviours :
          PeerChanges(node, behaviour)

SpecConsensus == Init /\ [][NextConsensus]_vars

(***************************************************************************)
(* A network of two nodes, both running hadcoin_node_5001.py, each handling *)
(* one request at a time.  A request a handler sends to a peer is handled   *)
(* by that peer before the handler goes on, so a step is a client's request *)
(* together with the requests it causes.                                    *)
(***************************************************************************)
NetworkNodes == {Self, Remote}

\* Where each node listens (app.run(host='0.0.0.0', port=5001)), and the
\* node_address each process drew at start-up.
url(n) ==
    CASE n = Self -> "http://10.0.0.1:5001"
      [] n = Remote -> "http://10.0.0.4:5001"

uuid(n) ==
    CASE n = Self -> node_address
      [] n = Remote -> peer_address

\* str(datetime.datetime.now()) on each machine: the two clocks never read
\* the same, so two nodes never mine the same block.
clock(n) ==
    CASE n = Self -> "2024-01-01 10:00:00"
      [] n = Remote -> "2024-01-01 10:00:00.000005"

\* The transaction clients submit to the network.
NetworkTxs == { Tx("Frank", "Grace", 7) }

\* request.remote_addr of a request sent by node n.
remote_addr_of(n) == host(netloc(url(n)))

\* The nodes of the network that n has registered, by the name it holds.
registered(self) == { m \in NetworkNodes : netloc(url(m)) \in self.nodes }

\* The Blockchain objects of all the processes.
World == [a \in Apps |-> blockchain(a)]

StoreAll(world) ==
    /\ chain' = [a \in Apps |-> world[a].chain]
    /\ transactions' = [a \in Apps |-> world[a].transactions]
    /\ nodes' = [a \in Apps |-> world[a].nodes]

\* The /receive_transaction handler: its status and the object after it.
receive_transaction(self, remote_addr, json_data) ==
    IF remote_addr \notin peer_ips(self) THEN [status |-> 403, self |-> self]
    ELSE IF ~(RequiredFields \subseteq DOMAIN json_data)
    THEN [status |-> 400, self |-> self]
    ELSE [status |-> 201,
          self |-> add_transaction(self, json_data.sender, json_data.receiver,
                                   json_data.amount)]

\* The /sync_mempool handler: its status and the object after it.
sync_mempool(self, remote_addr, json_data) ==
    IF remote_addr \notin peer_ips(self) THEN [status |-> 403, self |-> self]
    ELSE LET mined_transactions ==
                 IF "mined_transactions" \in DOMAIN json_data
                 THEN json_data.mined_transactions ELSE <<>>
         IN  [status |-> 200,
              self |-> [self EXCEPT !.transactions =
                           sync_loop(self.transactions, mined_transactions,
                                     0).transactions]]

\* The /get_chain handler's answer.
get_chain(self) == ChainBody(Len(self.chain), self.chain)

\* The broadcast loops with live peers: every registered node handles the
\* request n sends it.  Each request changes its receiver only, so the order
\* of the loop does not show.
gossip_transaction(world, n, json_data) ==
    [a \in Apps |->
        IF a \in registered(world[n])
        THEN receive_transaction(world[a], remote_addr_of(n), json_data).self
        ELSE world[a]]

gossip_mined(world, n, json_data) ==
    [a \in Apps |->
        IF a \in registered(world[n])
        THEN sync_mempool(world[a], remote_addr_of(n), json_data).self
        ELSE world[a]]

\* POST /connect_node at n, naming node m.
NetConnectNode(n, m) ==
    /\ StoreAll([World EXCEPT ![n] = add_nodes(World[n], <<url(m)>>)])
    /\ op' = [name |-> "connect_node", app |-> n, status |-> 201,
              total_nodes |-> nodes[n] \cup {netloc(url(m))}]
    /\ UNCHANGED <<submitted, peer, inflight>>

\* POST /add_transaction at n.
NetAddTransaction(n, json_data) ==
    /\ submitted < MaxSubmittedNode
    /\ RequiredFields \subseteq DOMAIN json_data
    /\ LET after == add_transaction(World[n], json_data.sender,
                                    json_data.receiver, json_data.amount)
           world == gossip_transaction([World EXCEPT ![n] = after], n,
                                       json_data)
       IN  /\ StoreAll(world)
           /\ op' = [name |-> "add_transaction", app |-> n, status |-> 201,
                     request |-> json_data,
                     index |-> add_transaction_result(after),
                     posted |-> registered(after)]
    /\ submitted' = submitted + 1
    /\ UNCHANGED <<peer, inflight>>

\* GET /mine_block at n.
NetMineBlock(n, timestamp) ==
    /\ Len(chain[n]) < MaxChain
    /\ Len(transactions[n]) >= MinPendingNode
    /\ LET after == mine_block(World[n], timestamp, uuid(n))
           batch == after.chain[Len(after.chain)].transactions
           world == gossip_mined([World EXCEPT ![n] = after], n,
                                 [mined_transactions |-> batch])
       IN  /\ StoreAll(world)
           /\ op' = [name |-> "mine_block", app |-> n, status |-> 200,
                     block |-> after.chain[Len(after.chain)],
                     posted |-> registered(after)]
    /\ UNCHANGED <<submitted, peer, inflight>>

\* GET /replace_chain at n, the peers being asked in the given order.
NetReplaceChain(n, order) ==
    /\ order \in Orders(registered(World[n]))
    /\ LET result == replace_chain(World[n],
                         [i \in 1..Len(order) |-> get_chain(World[order[i]])])
       IN  /\ StoreAll([World EXCEPT ![n] = result.self])
           /\ op' = [name |-> "replace_chain", app |-> n, status |-> 200,
                     ret |-> result.ret, order |-> order,
                     old_chain |-> chain[n]]
    /\ UNCHANGED <<submitted, peer, inflight>>

NextNetwork ==
    /\ Untouched(Standalone)
    /\ \/ \E n, m \in NetworkNodes : n # m /\ NetConnectNode(n, m)
       \/ \E n \in NetworkNodes, json_data \in NetworkTxs :
             NetAddTransaction(n, json_data)
       \/ \E n \in NetworkNodes : NetMineBlock(n, clock(n))
       \/ \E n \in NetworkNodes :
             \E order \in Orders(registered(World[n])) :
                 NetReplaceChain(n, order)

SpecNetwork == Init /\ [][NextNetwork]_vars

(***************************************************************************)
(* Gossip over every peer topology of the two nodes: /connect_node takes   *)
(* any address, the node's own included.                                   *)
(***************************************************************************)
NextTopology ==
    /\ Untouched(Standalone)
    /\ \/ \E n, m \in NetworkNodes : NetConnectNode(n, m)
       \/ \E n \in NetworkNodes, json_data \in NetworkTxs :
             NetAddTransaction(n, json_data)

SpecTopology == Init /\ [][NextTopology]_vars

(***************************************************************************)
(* Two /mine_block requests in flight at once.  The handler takes no lock, *)
(* so between its statements another request's statements may run: the     *)
(* handler is split where it reads the chain and mempool (lines 228-246),  *)
(* where it searches for the nonce (lines 247-253), and where it appends   *)
(* the block and answers (lines 255-276).                                  *)
(***************************************************************************)
MineBegin(t) ==
    /\ inflight[t] = Idle
    /\ Len(chain[Self]) + Cardinality(InFlight) < MaxChain
    /\ IF Len(transactions[Self]) < MinPendingNode
       THEN /\ op' = [name |-> "mine_block", app |-> Self, status |-> 400,
                      sent |-> {}]
            /\ UNCHANGED <<chain, transactions, nodes, inflight>>
       ELSE /\ Store(Self, add_transaction(blockchain(Self), "NETWORK",
                                           node_address, 1))
            /\ inflight' = [inflight EXCEPT ![t] =
                               [pc |-> "proof_of_work",
                                locals |-> mine_locals(blockchain(Self))]]
            /\ UNCHANGED op
    /\ UNCHANGED <<submitted, peer>>

MineSearch(t, timestamp) ==
    /\ inflight[t].pc = "proof_of_work"
    /\ inflight' = [inflight EXCEPT ![t] =
                       [pc |-> "create_block",
                        locals |-> mine_search(inflight[t].locals, timestamp)]]
    /\ UNCHANGED <<chain, transactions, nodes, op, submitted, peer>>

MineCreate(t) ==
    /\ inflight[t].pc = "create_block"
    /\ LET after == mine_create(blockchain(Self), inflight[t].locals)
       IN  /\ Store(Self, after)
           /\ op' = [name |-> "mine_block", app |-> Self, status |-> 200,
                     block |-> after.chain[Len(after.chain)],
                     locals |-> inflight[t].locals,
                     sent |-> broadcast(nodes[Self], "/sync_mempool")]
    /\ inflight' = [inflight EXCEPT ![t] = Idle]
    /\ UNCHANGED <<submitted, peer>>

NextConc ==
    \/ \E t \in Threads : MineBegin(t)
    \/ \E t \in Threads, timestamp \in Timestamps : MineSearch(t, timestamp)
    \/ \E t \in Threads : MineCreate(t)
    \/ \E json_data \in RequestBodies : AddTransaction(Self, json_data)

SpecConc == Init /\ [][NextConc]_vars

(***************************************************************************)
(* The standalone ledger under its threaded server: /mine_block requests   *)
(* and /add_transaction requests in flight at once.  blockchain.py takes   *)
(* no lock, so the handler is split at its statements, and the assignment  *)
(* blockchain.transactions = blockchain.transactions[5:] into the building *)
(* of the new list and the store of the attribute.                         *)
(***************************************************************************)
\* The bodies posted to /add_transaction meanwhile.
StandaloneBodies == { Tx("Frank", "Grace", 7), MalformedBody }

\* line 181: the 400 test.
StandaloneCheck(t) ==
    /\ inflight[t] = Idle
    /\ Len(chain[Standalone]) + Cardinality(InFlight) < MaxChain
    /\ IF Len(transactions[Standalone]) < MinPendingStandalone
       THEN /\ op' = [name |-> "mine_block", app |-> Standalone,
                      status |-> 400, sent |-> {}]
            /\ UNCHANGED inflight
       ELSE /\ inflight' = [inflight EXCEPT ![t] = [pc |-> "take"]]
            /\ UNCHANGED op
    /\ UNCHANGED <<chain, transactions, nodes, submitted, peer>>

\* line 187: transactions_to_mine = blockchain.transactions[:5]
StandaloneTake(t) ==
    /\ inflight[t].pc = "take"
    /\ inflight' = [inflight EXCEPT ![t] =
          [pc |-> "slice",
           transactions_to_mine |->
               SubSeq(transactions[Standalone], 1,
                      Min(BatchSize, Len(transactions[Standalone])))]]
    /\ UNCHANGED <<chain, transactions, nodes, op, submitted, peer>>

\* line 188, right-hand side: blockchain.transactions[5:] builds a new list.
StandaloneSlice(t) ==
    /\ inflight[t].pc = "slice"
    /\ inflight' = [inflight EXCEPT ![t] =
          [pc |-> "store",
           transactions_to_mine |-> inflight[t].transactions_to_mine,
           rest |-> SubSeq(transactions[Standalone], BatchSize + 1,
                           Len(transactions[Standalone]))]]
    /\ UNCHANGED <<chain, transactions, nodes, op, submitted, peer>>

\* line 188, the store: the new list becomes blockchain.transactions.
StandaloneStore(t) ==
    /\ inflight[t].pc = "store"
    /\ transactions' = [transactions EXCEPT ![Standalone] = inflight[t].rest]
    /\ inflight' = [inflight EXCEPT ![t] =
          [pc |-> "proof_of_work",
           transactions_to_mine |-> inflight[t].transactions_to_mine]]
    /\ UNCHANGED <<chain, nodes, op, submitted, peer>>

\* lines 190-203: the chain is read, the nonce searched, the hash computed.
StandaloneSearch(t, timestamp) ==
    /\ inflight[t].pc = "proof_of_work"
    /\ LET self == blockchain(Standalone)
           batch == inflight[t].transactions_to_mine
           locals == [transactions_to_mine |-> batch,
                      previous_hash |-> mine_previous_hash(self),
                      merkle_root |-> get_merkle_root(batch),
                      block_index |-> Len(self.chain) + 1]
       IN  inflight' = [inflight EXCEPT ![t] =
               [pc |-> "create_block",
                locals |-> mine_search(locals, timestamp)]]
    /\ UNCHANGED <<chain, transactions, nodes, op, submitted, peer>>

\* lines 205-217: create_block and the answer.
StandaloneCreate(t) ==
    /\ inflight[t].pc = "create_block"
    /\ LET locals == inflight[t].locals
           after == create_block_standalone(blockchain(Standalone),
                        locals.proof, locals.previous_hash, locals.merkle_root,
                        locals.transactions_to_mine, locals.timestamp,
                        locals.block_hash)
       IN  /\ Store(Standalone, after)
           /\ op' = [name |-> "mine_block", app |-> Standalone, status |-> 200,
                     block |-> after.chain[Len(after.chain)], sent |-> {}]
    /\ inflight' = [inflight EXCEPT ![t] = Idle]
    /\ UNCHANGED <<submitted, peer>>

NextStandaloneConc ==
    /\ Untouched(Self)
    /\ Untouched(Remote)
    /\ \/ \E t \in Threads : StandaloneCheck(t)
       \/ \E t \in Threads : StandaloneTake(t)
       \/ \E t \in Threads : StandaloneSlice(t)
       \/ \E t \in Threads : StandaloneStore(t)
       \/ \E t \in Threads, timestamp \in Timestamps :
             StandaloneSearch(t, timestamp)
       \/ \E t \in Threads : StandaloneCreate(t)
       \/ \E json_data \in StandaloneBodies :
             AddTransaction(Standalone, json_data)

SpecStandaloneConc == Init /\ [][NextStandaloneConc]_vars

(***************************************************************************)
(* The validator on its own: is_chain_valid applied to a copy of the       *)
(* node's chain in which one field of one block reads differently, or is   *)
(* absent, as a chain received from a peer may be.                         *)
(***************************************************************************)
BlockFields ==
    { "timestamp", "proof", "previous_hash", "merkle_root", "transactions",
      "block_hash" }

\* Other values of a field: of the same JSON type, and of the other one.
OtherValues(block, field) ==
    CASE field = "timestamp" ->
            { JStr(t) : t \in Timestamps \cup {"2024-01-01 09:59:59"} }
                \cup { JInt(1704103200) }
      [] field = "proof" ->
            { JInt(block.proof.int + 1), JInt(block.proof.int + 2),
              JStr(Decimal(block.proof.int)) }
      [] field = "previous_hash" ->
            { JStr("0"), JStr(sha256_hexdigest("0")), JInt(0) }
      [] field = "merkle_root" ->
            { JStr("0"), JStr(get_merkle_root(Preloaded)),
              JStr(get_merkle_root(<<RewardTx>>)) }
      [] field = "block_hash" ->
            { JStr(sha256_hexdigest("0")), block.previous_hash }
      [] field = "transactions" ->
            { [block.transactions EXCEPT ![j].amount = @ + 1]
                : j \in 1..Len(block.transactions) }
              \cup { [block.transactions EXCEPT ![j].receiver = "Mallory"]
                       : j \in 1..Len(block.transactions) }
              \cup { Append(block.transactions,
                            block.transactions[Len(block.transactions)]) }

ValidateChanged(i, field, value) ==
    /\ i \in 1..Len(chain[Self])
    /\ value \in OtherValues(chain[Self][i], field)
    /\ value # chain[Self][i][field]
    /\ op' = [name |-> "is_chain_valid", change |-> "changed", block |-> i,
              field |-> field, value |-> value,
              valid |-> is_chain_valid(WithField(chain[Self], i, field, value))]
    /\ UNCHANGED <<chain, transactions, nodes, submitted, peer, inflight>>

ValidateDropped(i, field) ==
    /\ i \in 1..Len(chain[Self])
    /\ op' = [name |-> "is_chain_valid", change |-> "dropped", block |-> i,
              field |-> field,
              valid |-> is_chain_valid(WithoutField(chain[Self], i, field))]
    /\ UNCHANGED <<chain, transactions, nodes, submitted, peer, inflight>>

NextValidator ==
    \/ \E json_data \in RequestBodies : AddTransaction(Self, json_data)
    \/ \E timestamp \in Timestamps : MineBlock(Self, timestamp)
    \/ \E i \in 1..Len(chain[Self]), field \in BlockFields :
          \E value \in OtherValues(chain[Self][i], field) :
              ValidateChanged(i, field, value)
    \/ \E i \in 1..Len(chain[Self]), field \in BlockFields :
          ValidateDropped(i, field)

SpecValidator == Init /\ [][NextValidator]_vars

(***************************************************************************)
(* The Merkle committer on its own: get_merkle_root applied to every list  *)
(* of at most MaxLeaves transactions drawn from MerkleTxs.                 *)
(***************************************************************************)
MaxLeaves == 5

MerkleTxs ==
    { Tx("Alice", "Bob", 50), Tx("Bob", "Charlie", 30), Tx("Bob", "Alice", 50) }

TxLists == UNION { [1..n -> MerkleTxs] : n \in 0..MaxLeaves }

GetMerkleRoot(txs) ==
    /\ op' = [name |-> "get_merkle_root", transactions |-> txs,
              root |-> get_merkle_root(txs)]
    /\ UNCHANGED <<chain, transactions, nodes, submitted, peer, inflight>>

NextMerkle == \E txs \in TxLists : GetMerkleRoot(txs)

SpecMerkle == Init /\ [][NextMerkle]_vars

(***************************************************************************)
(* Properties                                                              *)
(***************************************************************************)
\* Block i of chain c carries the hash of its own fields, with the difficulty
\* prefix, the Merkle root of its transactions, and the hash of the block
\* before it ('0' for the first).
BlockSealed(c, i) ==
    /\ c[i].merkle_root = JStr(get_merkle_root(c[i].transactions))
    /\ compute_block_hash(c[i]) = Return(c[i].block_hash.str)
    /\ starts_with_000(c[i].block_hash.str)
    /\ c[i].previous_hash = IF i = 1 THEN JStr("0") ELSE c[i - 1].block_hash

\* C1: on either application, handling requests one at a time, whatever was
\* submitted and mined since start-up, is_chain_valid accepts the chain, and
\* every mined block carries the hash recomputed from its stored fields, the
\* difficulty prefix, the Merkle root of its transactions and the hash of the
\* block before it ("0" for the first block).
C1_MinedChainIsValid ==
    \A a \in Apps :
        /\ is_chain_valid(chain[a]) = Return(TRUE)
        /\ \A i \in 1..Len(chain[a]) : BlockSealed(chain[a], i)

\* A second block has just been mined, after a submission was accepted.
C1_SecondBlockMined ==
    /\ op.name = "mine_block"
    /\ op.status = 200
    /\ submitted > 0
    /\ Len(chain[op.app]) = 2

\* The answers of the peers the last /replace_chain scanned, in scan order.
Scan == [i \in 1..Len(op.order) |-> peer[op.order[i]]]

\* A 200 answer with a JSON body holding 'length' and 'chain'.
Answers(behaviour) ==
    /\ behaviour.kind = "response"
    /\ behaviour.status_code = 200
    /\ behaviour.usable

\* An answer whose chain the validator returns a verdict on.
AnswersWellFormed(behaviour) ==
    /\ Answers(behaviour)
    /\ Returned(is_chain_valid(behaviour.chain))

\* A valid chain reported with a length above local_length.
ValidLonger(behaviour, local_length) ==
    /\ Answers(behaviour)
    /\ behaviour.length > local_length
    /\ is_chain_valid(behaviour.chain) = Return(TRUE)

\* C2: when every scanned peer answers with a well-formed chain and one of
\* them reports a valid chain, holding at least one block, of length strictly
\* greater than the local one, replace_chain returns true and the local chain
\* is then a valid peer chain of the greatest length reported among the valid
\* strictly longer candidates, whatever the order of the scan.
C2_AdoptsLongestValid ==
    ( /\ op.name = "replace_chain"
      /\ \A i \in 1..Len(op.order) : AnswersWellFormed(Scan[i])
      /\ \E i \in 1..Len(op.order) :
            /\ ValidLonger(Scan[i], Len(op.old_chain))
            /\ Len(Scan[i].chain) > 0 )
    => /\ op.outcome = "returned"
       /\ op.ret = TRUE
       /\ \E i \in 1..Len(op.order) :
            /\ ValidLonger(Scan[i], Len(op.old_chain))
            /\ chain[Self] = Scan[i].chain
            /\ \A j \in 1..Len(op.order) :
                 ValidLonger(Scan[j], Len(op.old_chain))
                    => Scan[j].length <= Scan[i].length

\* C3: a copy of an accepted chain in which one field of one block
\* (timestamp, proof, previous_hash, merkle_root, a transaction, block_hash)
\* has been changed to a different value is never accepted by is_chain_valid.
C3_TamperDetected ==
    (op.name = "is_chain_valid" /\ op.change = "changed")
        => op.valid # Return(TRUE)

\* C4: once replace_chain has adopted a peer chain, no transaction of a block
\* of the adopted chain is still pending in the local mempool.
C4_AdoptedTransactionsLeaveMempool ==
    (op.name = "replace_chain" /\ op.outcome = "returned" /\ op.ret)
        => \A i \in 1..Len(chain[Self]) :
              \A j \in 1..Len(chain[Self][i].transactions) :
                  ~list_contains(transactions[Self],
                                 chain[Self][i].transactions[j])

\* C5: with two /mine_block requests interleaved, once no request is in
\* flight the chain is one is_chain_valid accepts, and every block a request
\* stores carries the index its hash was computed over.
C5_ConcurrentMinesSerialize ==
    /\ InFlight = {} => is_chain_valid(chain[Self]) = Return(TRUE)
    /\ (op.name = "mine_block" /\ op.status = 200)
          => op.block.index = JInt(op.locals.block_index)

\* No scanned peer offers a strictly longer valid chain: each one refuses the
\* connection, answers with another status than 200, reports a length not
\* above the local one, or reports a chain that is_chain_valid rejects.
NoCandidate ==
    \A i \in 1..Len(op.order) :
        \/ Scan[i] = ConnectionRefused
        \/ Scan[i].kind = "response" /\ Scan[i].status_code # 200
        \/ /\ Answers(Scan[i])
           /\ \/ Scan[i].length <= Len(op.old_chain)
              \/ is_chain_valid(Scan[i].chain) = Return(FALSE)

\* C6: when no scanned peer offers a strictly longer valid chain,
\* replace_chain returns false and leaves the chain as it was; whenever it
\* returns false the chain is as it was, and whenever it returns true the
\* chain is that of a peer whose reported length is strictly greater than the
\* local length was, never one of equal length.
C6_NoLongerCandidateNoChange ==
    op.name = "replace_chain"
        => /\ NoCandidate
              => /\ op.outcome = "returned"
                 /\ op.ret = FALSE
                 /\ chain[Self] = op.old_chain
           /\ (op.outcome = "returned" /\ ~op.ret) => chain[Self] = op.old_chain
           /\ (op.outcome = "returned" /\ op.ret)
                 => \E i \in 1..Len(op.order) :
                       /\ Answers(Scan[i])
                       /\ Scan[i].length > Len(op.old_chain)
                       /\ chain[Self] = Scan[i].chain

\* replace_chain has just scanned a peer holding a different valid chain of
\* the same length as the local, non-empty chain, and no longer candidate.
C6_EqualLengthForkScanned ==
    /\ op.name = "replace_chain"
    /\ NoCandidate
    /\ Len(op.old_chain) > 0
    /\ \E i \in 1..Len(op.order) :
          /\ Answers(Scan[i])
          /\ Scan[i].length = Len(op.old_chain)
          /\ Scan[i].chain # op.old_chain
          /\ is_chain_valid(Scan[i].chain) = Return(TRUE)

\* C7: when peers fail by refusing the connection, by answering with another
\* status than 200 or by sending an unusable body, replace_chain still scans
\* every peer and returns to its caller.
C7_FailingPeerSkipped ==
    ( /\ op.name = "replace_chain"
      /\ \A i \in 1..Len(op.order) :
            \/ Scan[i] \in {ConnectionRefused, ServerError, UnusableBody}
            \/ AnswersWellFormed(Scan[i]) )
    => /\ op.outcome = "returned"
       /\ op.scanned = Len(op.order)

\* C8: no peer call of replace_chain, nor any send of the broadcast loops of
\* /add_transaction and /mine_block, waits forever on a peer that accepts the
\* connection and never answers.
C8_PeerCallsBounded ==
    /\ op.name = "replace_chain" => op.outcome # "hung"
    /\ op.name \in {"add_transaction", "mine_block"}
          => \A send \in op.sent : send.result # "hung"

\* C9: is_chain_valid returns a boolean for every candidate chain, one whose
\* blocks lack a field or carry a field of the wrong type included.
C9_ValidationNeverThrows ==
    op.name = "is_chain_valid" => Returned(op.valid)

\* The number of copies of v in a list, and the number among the first i.
Copies(list, v) == Cardinality({ j \in 1..Len(list) : list[j] = v })
CopiesUpTo(list, i) == Cardinality({ j \in 1..i : list[j] = list[i] })

\* The positions of pending that survive the removal of batch: the k-th copy
\* of a value survives exactly when batch holds fewer than k copies of it.
Surviving(pending, batch) ==
    { i \in 1..Len(pending) : CopiesUpTo(pending, i) > Copies(batch, pending[i]) }

\* pending without the earliest copies matched by batch, order kept.
EarliestRemoved(pending, batch) ==
    LET kept == Surviving(pending, batch)
    IN  [k \in 1..Cardinality(kept) |->
            pending[CHOOSE i \in kept :
                        Cardinality({ j \in kept : j <= i }) = k]]

\* C10: the mempool after create_block(batch) in /mine_block, and after
\* /sync_mempool(batch), is the mempool before with, for every value, the
\* earliest min(copies pending, copies in batch) copies removed and every
\* other pending transaction kept in its order.
C10_RemovalByValueStep ==
    /\ (op'.name = "sync_mempool" /\ op'.status = 200)
          => transactions'[Self] =
                EarliestRemoved(transactions[Self], op'.mined_transactions)
    /\ (op'.name = "mine_block" /\ op'.status = 200)
          => transactions'[Self] =
                EarliestRemoved(Append(transactions[Self], RewardTx),
                                op'.block.transactions)

C10_RemovalByValue == [][C10_RemovalByValueStep]_vars

\* /sync_mempool has just removed two copies of a value of which the mempool
\* held more, so that a later copy is still pending.
C10_CopiesLeftBehind ==
    /\ op.name = "sync_mempool"
    /\ op.status = 200
    /\ op.removed >= 2
    /\ \E v \in SubmittedTxs :
          /\ Copies(op.mined_transactions, v) = 2
          /\ Copies(transactions[Self], v) >= 1

\* C11: the block /mine_block produces holds exactly the first min(5, n) of
\* the n pending transactions, in their order, and the mempool afterwards is
\* what was pending behind that batch, in its order (followed, on the node, by
\* the reward transaction this request added).
C11_MiningIsFifoStep ==
    \A a \in Apps :
        (op'.name = "mine_block" /\ op'.status = 200 /\ op'.app = a)
            => LET n == Len(transactions[a])
                   taken == IF n < BatchSize THEN n ELSE BatchSize
               IN  /\ op'.block.transactions = SubSeq(transactions[a], 1, taken)
                   /\ transactions'[a] =
                        SubSeq(transactions[a], taken + 1, n)
                            \o (IF a = Self THEN <<RewardTx>> ELSE <<>>)

C11_MiningIsFifo == [][C11_MiningIsFifoStep]_vars

\* A full batch has just been mined while a submitted transaction was pending
\* behind it.
C11_BacklogBehindBatch ==
    /\ op.name = "mine_block"
    /\ op.status = 200
    /\ Len(op.block.transactions) = BatchSize
    /\ Len(transactions[op.app]) >= 1
    /\ transactions[op.app][1] \in SubmittedTxs

\* C12: the first /mine_block of an application that holds exactly the five
\* preloaded transactions yields a block with index 1, previous_hash "0",
\* those five transactions and no reward transaction, and a block_hash with
\* the difficulty prefix; afterwards the mempool is empty on the standalone
\* ledger and holds the one reward transaction on the node.
C12_FirstBlock ==
    \A a \in Apps :
        ( /\ op.name = "mine_block"
          /\ op.status = 200
          /\ op.app = a
          /\ submitted = 0
          /\ Len(chain[a]) = 1 )
        => /\ op.block = chain[a][1]
           /\ op.block.index = JInt(1)
           /\ op.block.previous_hash = JStr("0")
           /\ op.block.transactions = Preloaded
           /\ ~list_contains(op.block.transactions, RewardTx)
           /\ starts_with_000(op.block.block_hash.str)
           /\ compute_block_hash(op.block) = Return(op.block.block_hash.str)
           /\ transactions[a] = IF a = Self THEN <<RewardTx>> ELSE <<>>

\* The node has just mined its first block from the five preloaded transactions.
C12_NodeMinedFirstBlock ==
    /\ op.name = "mine_block"
    /\ op.status = 200
    /\ op.app = Self
    /\ submitted = 0
    /\ Len(chain[Self]) = 1

\* C13: a request the node answers with 400 or 403 leaves the chain, the
\* mempool and the peer set exactly as they were and sends nothing to any peer.
C13_RejectedChangesNothingStep ==
    (op'.name \in { "add_transaction", "receive_transaction", "mine_block",
                    "connect_node", "sync_mempool" }
        /\ op'.status \in {400, 403})
    => /\ chain' = chain
       /\ transactions' = transactions
       /\ nodes' = nodes
       /\ op'.sent = {}

C13_RejectedChangesNothing == [][C13_RejectedChangesNothingStep]_vars

\* /mine_block has just been refused for want of pending transactions, on a
\* node that has peers registered.
C13_MineRefusedWithPeers ==
    /\ op.name = "mine_block"
    /\ op.status = 400
    /\ nodes[Self] # {}
    /\ transactions[Self] = <<>>

\* The address a request from the peer registered as host:port comes from.
AddressOf(node) ==
    CASE node = "10.0.0.2:5000" -> "10.0.0.2"
      [] node = "10.0.0.3:5000" -> "10.0.0.3"

\* C14: /receive_transaction and /sync_mempool are answered 403 exactly when
\* the request's source address is not the host part of a registered peer,
\* and they change the mempool only when it is one; a request from the host
\* of any registered peer is let through.
C14_GossipAuthorizedStep ==
    op'.name \in {"receive_transaction", "sync_mempool"}
        => LET from_peer == \E node \in nodes[Self] :
                                AddressOf(node) = op'.remote_addr
           IN  /\ op'.status = 403 <=> ~from_peer
               /\ transactions' # transactions => from_peer
               /\ nodes' = nodes

C14_GossipAuthorized == [][C14_GossipAuthorizedStep]_vars

\* With only 10.0.0.2:5000 registered, a transaction from 10.0.0.2 has been
\* accepted and a request from 10.0.0.3 has just been answered 403.
C14_OnePeerRegistered ==
    /\ nodes[Self] = {"10.0.0.2:5000"}
    /\ submitted > 0
    /\ op.name = "receive_transaction"
    /\ op.remote_addr = "10.0.0.3"
    /\ op.status = 403

\* The digest proof_of_work tests for nonce n and the fields of block.
NonceDigest(n, block) ==
    sha256_hexdigest(Decimal(n) \o Decimal(block.index.int)
        \o block.timestamp.str \o block.previous_hash.str
        \o block.merkle_root.str \o dumps(block.transactions))

\* C15: the nonce proof_of_work returned for a mined block satisfies the
\* difficulty predicate over (nonce, index, timestamp, previous_hash,
\* merkle_root, serialized transactions), and no smaller non-negative nonce
\* does.
C15_SmallestNonce ==
    (op.name = "mine_block" /\ op.status = 200)
        => /\ op.block.proof.int >= 0
           /\ starts_with_000(NonceDigest(op.block.proof.int, op.block))
           /\ \A n \in 0..(op.block.proof.int - 1) :
                 ~starts_with_000(NonceDigest(n, op.block))

\* A block has just been mined whose search had to pass over smaller nonces.
C15_SearchPassedSmallerNonces ==
    /\ op.name = "mine_block"
    /\ op.status = 200
    /\ op.block.proof.int > 0

\* The digest of two values concatenated.
HashPair(x, y) == sha256_hexdigest(x \o y)

\* The reference commitment of the serialized transactions s, written out
\* for each length: an odd level is made even by repeating its last value.
ReferenceRoot(s) ==
    CASE Len(s) = 0 -> "0"
      [] Len(s) = 1 -> s[1]
      [] Len(s) = 2 -> HashPair(s[1], s[2])
      [] Len(s) = 3 -> HashPair(HashPair(s[1], s[2]), HashPair(s[3], s[3]))
      [] Len(s) = 4 -> HashPair(HashPair(s[1], s[2]), HashPair(s[3], s[4]))
      [] Len(s) = 5 ->
            HashPair(HashPair(HashPair(s[1], s[2]), HashPair(s[3], s[4])),
                     HashPair(HashPair(s[5], s[5]), HashPair(s[5], s[5])))
      [] Len(s) = 6 ->
            HashPair(HashPair(HashPair(s[1], s[2]), HashPair(s[3], s[4])),
                     HashPair(HashPair(s[5], s[6]), HashPair(s[5], s[6])))

\* json.dumps(tx, sort_keys=True), spelled out for the three keys.
Serialized(tx) ==
    "{\"amount\": " \o Decimal(tx.amount) \o ", \"receiver\": \""
        \o tx.receiver \o "\", \"sender\": \"" \o tx.sender \o "\"}"

C17_SingleLeafIsHashed ==
    (op.name = "get_merkle_root" /\ Len(op.transactions) = 1)
        => /\ op.root = HashPair(Serialized(op.transactions[1]),
                                 Serialized(op.transactions[1]))
           /\ op.root # Serialized(op.transactions[1])

OneSendEach(sent, network, endpoint) ==
    /\ \A send \in sent : send.to \in network /\ send.endpoint = endpoint
    /\ \A node \in network :
          /\ Cardinality({ send \in sent : send.to = node }) = 1
          /\ \A send \in sent :
                send.to = node
                    => send.result = IF peer[node].kind = "response"
                                     THEN "sent" ELSE "skipped"

\* C19: an accepted /add_transaction appends the transaction to the local
\* mempool exactly once and answers 201 whichever peers fail, and one send is
\* made to every registered peer, a failed send being skipped without
\* touching the sends to the other peers; the broadcast of /mine_block sends
\* to every peer in the same way.
C19_BroadcastBestEffortStep ==
    /\ (op'.name = "add_transaction"
           /\ RequiredFields \subseteq DOMAIN op'.request)
          => /\ op'.status = 201
             /\ transactions'[Self] = Append(transactions[Self], op'.request)
             /\ OneSendEach(op'.sent, nodes[Self], "/receive_transaction")
    /\ (op'.name = "mine_block" /\ op'.status = 200)
          => OneSendEach(op'.sent, nodes[Self], "/sync_mempool")

C19_BroadcastBestEffort == [][C19_BroadcastBestEffortStep]_vars

\* /add_transaction has just been accepted with two peers registered, one of
\* which took the transaction while the send to the other failed.
C19_OnePeerDown ==
    /\ op.name = "add_transaction"
    /\ op.status = 201
    /\ Cardinality(nodes[Self]) = 2
    /\ \E send \in op.sent : send.result = "sent"
    /\ \E send \in op.sent : send.result = "skipped"

\* The sequence s is a prefix of the sequence t.
IsPrefix(s, t) ==
    /\ Len(s) <= Len(t)
    /\ \A i \in 1..Len(s) : t[i] = s[i]

\* C20: the chain is append-only: the chain before any operation of the node
\* is a prefix of the chain after it.
C20_ChainAppendOnlyStep ==
    IsPrefix(chain[Self], chain'[Self])

C20_ChainAppendOnly == [][C20_ChainAppendOnlyStep]_vars

\* C25: replace_chain never shortens the local chain, whatever length and
\* chain the peers report.
C25_NeverShortensStep ==
    op'.name = "replace_chain" => Len(chain'[Self]) >= Len(chain[Self])

C25_NeverShortens == [][C25_NeverShortensStep]_vars

\* The two nodes have registered each other.
MutuallyRegistered ==
    /\ Remote \in registered(World[Self])
    /\ Self \in registered(World[Remote])

\* C21: when two mutually registered nodes have each run replace_chain, one
\* after the other, they hold the same chain.
C21_ForksResolveStep ==
    (/\ MutuallyRegistered
     /\ op.name = "replace_chain"
     /\ op'.name = "replace_chain"
     /\ op.app # op'.app)
        => chain'[Self] = chain'[Remote]

C21_ForksResolve == [][C21_ForksResolveStep]_vars

\* C24: in a network of nodes handling one request at a time, every block of
\* every node's chain has its 1-based position as index, and add_transaction
\* returns len(chain) + 1.
C24_IndexIsPosition ==
    /\ \A n \in NetworkNodes :
          \A i \in 1..Len(chain[n]) : chain[n][i].index = JInt(i)
    /\ op.name = "add_transaction"
          => op.index = Return(Len(chain[op.app]) + 1)

\* /add_transaction has just been answered by a node that holds two blocks
\* it adopted from the other node.
C24_AddAfterAdoption ==
    /\ op.name = "add_transaction"
    /\ op.app = Self
    /\ Len(chain[Self]) = 2
    /\ chain[Self] = chain[Remote]
    /\ chain[Self][1].timestamp = JStr(clock(Remote))

\* tx is in the list.
InList(tx, list) == \E i \in 1..Len(list) : list[i] = tx

\* tx is pending at node n or in a block of n's chain.
Held(n, tx) ==
    \/ InList(tx, transactions[n])
    \/ \E i \in 1..Len(chain[n]) : InList(tx, chain[n][i].transactions)

\* tx went through n's add_transaction: it is pending at n, or in a block
\* that n mined itself.  (Only the endpoints put a submitted transaction
\* into a mempool, and a node mines from its own mempool only.)
AcceptedAt(n, tx) ==
    \/ InList(tx, transactions[n])
    \/ \E i \in 1..Len(chain[n]) :
          /\ chain[n][i].timestamp = JStr(clock(n))
          /\ InList(tx, chain[n][i].transactions)

\* C26: a transaction a node accepted stays pending at that node or in a
\* block of that node's chain, whatever request is handled next.
C26_AcceptedStaysHeldStep ==
    \A n \in NetworkNodes, tx \in NetworkTxs :
        AcceptedAt(n, tx) => Held(n, tx)'

C26_AcceptedStaysHeld == [][C26_AcceptedStaysHeldStep]_vars

\* C27: one accepted /add_transaction adds exactly one copy of the
\* transaction to the mempool of the node that took it and at most one to
\* the mempool of every other node, whatever the nodes have registered.
C27_GossipDoesNotAmplifyStep ==
    op'.name = "add_transaction"
        => \A a \in NetworkNodes :
              LET before == Copies(transactions[a], op'.request)
                  after == Copies(transactions'[a], op'.request)
              IN  IF a = op'.app THEN after = before + 1
                  ELSE after \in {before, before + 1}

C27_GossipDoesNotAmplify == [][C27_GossipDoesNotAmplifyStep]_vars

\* C22: a transaction accepted while a /mine_block request is searching for
\* its nonce changes nothing of what that
\* request holds, the block that request then appends carries the batch,
\* merkle_root and hash it held, and the transaction is still pending once
\* that request has appended its block.
C22_SearchUsesSnapshotStep ==
    /\ submitted' = submitted + 1 => inflight' = inflight
    /\ \A t \in Threads :
          (inflight[t].pc = "create_block" /\ inflight'[t] = Idle)
             => /\ op'.block.transactions = inflight[t].locals.transactions_to_mine
                /\ op'.block.merkle_root = JStr(inflight[t].locals.merkle_root)
                /\ op'.block.block_hash = JStr(inflight[t].locals.block_hash)
                /\ (/\ op.name = "add_transaction"
                    /\ op.status = 201
                    /\ t \in op.searching)
                      => InList(op.request, transactions'[Self])

C22_SearchUsesSnapshot == [][C22_SearchUsesSnapshotStep]_vars

\* How many transactions the blocks of chain c hold.
RECURSIVE MinedCount(_)
MinedCount(c) ==
    IF Len(c) = 0 THEN 0
    ELSE Len(c[Len(c)].transactions) + MinedCount(SubSeq(c, 1, Len(c) - 1))

\* C23: on the standalone ledger, once no /mine_block request is in flight,
\* every transaction the ledger took (the five preloaded and the accepted
\* ones) is pending or in exactly one block: none lost, none mined twice.
C23_TakeFirstFiveConserves ==
    InFlight = {}
        => Len(transactions[Standalone]) + MinedCount(chain[Standalone])
               = Len(Preloaded) + submitted

=============================================================================
